---- MODULE Spec2Model ----
(***************************************************************************)
(* A model of src/src/serialize.c: the byte buffer that R's serialization  *)
(* engine writes to (pack_) and reads from (unpack_) through the four      *)
(* stream callbacks write_byte, write_bytes, read_byte and read_bytes.     *)
(*                                                                         *)
(* The build modelled is the one with long vectors: R_xlen_t is a signed   *)
(* integer wider than R_XLEN_T_MAX needs (ptrdiff_t, 64 bits, against      *)
(* R_XLEN_T_MAX = 2^52).  Sizes are scaled down: the initial capacity      *)
(* 16384, R_XLEN_T_MAX and the width of R_xlen_t are small numbers that    *)
(* keep the same order (InitCapacity < R_XLEN_T_MAX, and twice             *)
(* R_XLEN_T_MAX fits in R_xlen_t).                                         *)
(*                                                                         *)
(* error() is R's error: a longjmp out of the running .Call to the top     *)
(* level.  No statement after it runs; nothing is unwound.                 *)
(***************************************************************************)
EXTENDS Integers, Sequences, FiniteSets, TLC

\* ------------------------------------------------------------- bounds
\* The capacity pack_ asks init_buffer for (16384 in the source), scaled.
InitCapacity == 1
\* R_XLEN_T_MAX of the long-vector build (2^52), scaled.
R_XLEN_T_MAX == 8
\* Width in bits of R_xlen_t (64 in the long-vector build), scaled.
XLEN_BITS == 6
\* The engine issues at most this many write calls in one pack call.
MaxWrites == 3
\* The longest run one write_bytes / read_bytes call is asked to move.
MaxLen == 3
\* The engine issues at most this many read calls on an arbitrary input.
MaxReads == 3
\* The longest raw vector handed to unpack_ as an arbitrary input.
MaxVecLen == 3
\* The longest run appended in the comparison of the two append paths.
MaxN == 9
\* The largest nbytes init_buffer is called with where any value may be passed.
MaxInit == 2

\* ------------------------------------------------------------- values
\* What the engine passes as `int c` / as source bytes.
Bytes == {7, 200}
\* The content of storage that malloc/realloc returned and nobody wrote.
Uninit == -1
NoValue == [type |-> "none", bytes |-> <<>>]
\* No write call in progress.  A call in progress carries what it was given
\* (fn, src) and the capacity and position it found (cap, pos).
NoCall == [fn |-> "none", src |-> <<>>, cap |-> 0, pos |-> 0]
Raw(bs) == [type |-> "RAWSXP", bytes |-> bs]
NotRaw == [type |-> "INTSXP", bytes |-> <<>>]
Blocks == {"wbuf", "wdata", "rbuf"}

\* A run of n bytes the engine hands to write_bytes: alternating values.
Other(b) == CHOOSE x \in Bytes : x # b
Run(first, n) == [i \in 1..n |-> IF i % 2 = 1 THEN first ELSE Other(first)]
Runs == {Run(f, n) : f \in Bytes, n \in 0..MaxLen}

RECURSIVE Flatten(_)
Flatten(ss) == IF ss = <<>> THEN <<>> ELSE Head(ss) \o Flatten(Tail(ss))

RECURSIVE SumLen(_)
SumLen(ss) == IF ss = <<>> THEN 0 ELSE Len(Head(ss)) + SumLen(Tail(ss))

\* ---------------------------------------------------------- conversions
\* (unsigned char)c
ToUChar(c) == c % 256

\* Faulty variant of the cast: to a type one bit narrower than R_xlen_t,
\* which twice R_XLEN_T_MAX does not fit.
ToXlen_narrow(x) ==
  LET m == 2 ^ (XLEN_BITS - 1)
      r == x % m
  IN  IF r >= m \div 2 THEN r - m ELSE r

\* (R_xlen_t)x: the value kept in XLEN_BITS bits, two's complement.
ToXlen(x) ==
  LET m == 2 ^ XLEN_BITS
      r == x % m
  IN  IF r >= m \div 2 THEN r - m ELSE r

\* ------------------------------------------------------- buffer functions
\* init_buffer(nbytes), both allocations having succeeded.
init_buffer(nbytes) ==
  [length |-> nbytes, pos |-> 0, data |-> [i \in 1..nbytes |-> Uninit]]

\* Faulty variant of the growth factor: 3 for 2.
expand_length_triple(b) == [b EXCEPT !.length = ToXlen(3 * b.length)]

\* expand_buffer: buf->length = (R_xlen_t)(factor * buf->length)
expand_length(b) == [b EXCEPT !.length = ToXlen(2 * b.length)]

\* expand_buffer: if (buf->length > R_XLEN_T_MAX) error(...)
expansion_too_large(b) == b.length > R_XLEN_T_MAX

\* Faulty variant of realloc: a fresh block, the old content not carried over.
realloc_fresh(data, size) == [i \in 1..size |-> Uninit]

\* realloc(ptr, size), succeeding: the first min(old, size) bytes are kept,
\* the rest is whatever the allocator returned.
realloc(data, size) ==
  [i \in 1..size |-> IF i <= Len(data) THEN data[i] ELSE Uninit]

\* Faulty variant of write_byte's test: > for >=.
write_byte_full_gt(b) == b.pos > b.length

\* write_byte: while (buf->pos >= buf->length)
write_byte_full(b) == b.pos >= b.length

\* Faulty variant of write_bytes' test: >= for >.
write_bytes_full_ge(b, length) == b.pos + length >= b.length

\* write_bytes: while (buf->pos + length > buf->length)
write_bytes_full(b, length) == b.pos + length > b.length

\* The indices (0-based) a copy of n bytes at pos touches.
Touched(pos, n) == {pos + k : k \in 0..(n - 1)}

\* memcpy(data + pos, src, n) on storage `data`; a byte past the end of the
\* storage lands outside it and is not part of `data`.
memcpy_in(data, pos, src) ==
  [i \in 1..Len(data) |->
     IF i - 1 \in Touched(pos, Len(src)) THEN src[i - pos] ELSE data[i]]

\* write_byte: buf->data[buf->pos++] = (unsigned char)c
write_byte_store(b, c) ==
  [b EXCEPT !.data = memcpy_in(b.data, b.pos, <<ToUChar(c)>>),
            !.pos = b.pos + 1]

\* Faulty variant of write_bytes: the position advances by one, as in
\* write_byte, whatever the length.
write_bytes_store_one(b, src) ==
  [b EXCEPT !.data = memcpy_in(b.data, b.pos, src),
            !.pos = b.pos + 1]

\* Faulty variant of write_bytes: the copy stops one byte short.
write_bytes_store_short(b, src) ==
  [b EXCEPT !.data = memcpy_in(b.data, b.pos, SubSeq(src, 1, Len(src) - 1)),
            !.pos = b.pos + Len(src)]

\* write_bytes: memcpy(buf->data + buf->pos, src, length); buf->pos += length
write_bytes_store(b, src) ==
  [b EXCEPT !.data = memcpy_in(b.data, b.pos, src),
            !.pos = b.pos + Len(src)]

\* The byte at 1-based place i of storage `data`; past its end, whatever
\* the memory there holds.
At(data, i) == IF i \in 1..Len(data) THEN data[i] ELSE Uninit

\* Faulty variant of pack_'s copy: the whole capacity, slack included.
pack_result_capacity(b) == Raw([i \in 1..b.length |-> At(b.data, i)])

\* pack_: allocVector(RAWSXP, buf->pos); memcpy(RAW(res_), buf->data, buf->pos)
pack_result(b) == Raw([i \in 1..b.pos |-> At(b.data, i)])

\* Faulty variant of read_byte's test: > for >=.
read_byte_overflow_gt(b) == b.pos > b.length

\* read_byte: if (buf->pos >= buf->length) error(...)
read_byte_overflow(b) == b.pos >= b.length

\* Faulty variant of read_bytes' test: >= for >.
read_bytes_overflow_ge(b, length) == b.pos + length >= b.length

\* Faulty variant of read_bytes' test: the length is left out.
read_bytes_overflow_pos(b, length) == b.pos > b.length

\* read_bytes: if (buf->pos + length > buf->length) error(...)
read_bytes_overflow(b, length) == b.pos + length > b.length

\* Faulty variant of the failing read: what is available is copied and
\* consumed before the error is raised.
read_failed_partial(b, length) ==
  [buf |-> [b EXCEPT !.pos = b.length],
   out |-> [i \in 1..(b.length - b.pos) |-> At(b.data, b.pos + i)]]

\* read_byte / read_bytes: error(...) is raised by the bounds check, ahead of
\* the copy and the advance; the record is as it was and dst got nothing.
read_failed(b, length) == [buf |-> b, out |-> <<>>]

\* read_byte: return buf->data[buf->pos++]
read_byte_fetch(b) == <<At(b.data, b.pos + 1)>>

\* read_bytes: memcpy(dst, buf->data + buf->pos, length)
read_bytes_fetch(b, length) == [i \in 1..length |-> At(b.data, b.pos + i)]

\* Faulty variant of the advance: by one byte whatever the length.
read_advance_one(b, length) == [b EXCEPT !.pos = b.pos + 1]

\* read_byte / read_bytes: buf->pos++ / buf->pos += length
read_advance(b, length) == [b EXCEPT !.pos = b.pos + length]

\* unpack_: buf->length = len; buf->pos = 0; buf->data = vec
reader_over(v) == [length |-> Len(v.bytes), pos |-> 0, data |-> v.bytes]

\* Faulty variant of the type check: it lets every value through.
not_raw_never(v) == FALSE

\* unpack_: if (TYPEOF(vec_) != RAWSXP) error(...)
not_raw(v) == v.type # "RAWSXP"

\* The counting sink of the size-only call: one byte, a run of n bytes.
count_byte(total) == total + 1
count_bytes(total, n) == total + n

\* ------------------------------------------------------------- state
VARIABLES
  pc,           \* where the session is
  engine,       \* "replay": decode reads what encode wrote; "free": any reads
  buf,          \* pack_'s buffer record (length, pos, data)
  heap,         \* each malloc'ed block: "none", "live" or "freed", and how
                \* many times free() was called on it
  cur,          \* the write call in progress
  writeLog,     \* the write calls completed in this pack call
  wrote,        \* the 0-based indices and the capacity of the last store
  reallocs,     \* the realloc calls of this pack call: size asked, outcome
  grown,        \* the buffer before and after the last successful growth
  err,          \* the error the last call raised, or "none"
  useAfterFree, \* a freed block was accessed
  pack_res,     \* what pack_ returned
  sink_total,   \* the counting sink's running total
  fed,          \* how many of the write calls the sink has received
  measure_res,  \* what the size-only call returned
  vec,          \* the value handed to unpack_
  rbuf,         \* unpack_'s buffer record
  readLog,      \* the read calls of this unpack call, failed ones included
  unpack_res,   \* what unpack_ returned
  bufA, bufB,   \* two fresh buffers, for the comparison of the append paths
  srcG,         \* the bytes appended to both
  pcG,          \* where the comparison is
  bufT,         \* a buffer from init_buffer(nbytes), any nbytes
  callT,        \* the write call made on bufT: fn and length
  pcT,          \* where that call is: loop test, expand_buffer, store, ...
  errT,         \* the error that call raised, or "none"
  nT            \* how many write calls were made on bufT

vars == <<pc, engine, buf, heap, cur, writeLog, wrote, reallocs, grown,
          err, useAfterFree, pack_res, sink_total, fed, measure_res, vec, rbuf,
          readLog, unpack_res, bufA, bufB, srcG, pcG,
          bufT, callT, pcT, errT, nT>>

packVars == <<buf, cur, writeLog, wrote, reallocs, grown, pack_res>>
measureVars == <<sink_total, fed, measure_res>>
unpackVars == <<vec, rbuf, readLog, unpack_res>>
growthVars == <<bufA, bufB, srcG, pcG>>
termVars == <<bufT, callT, pcT, errT, nT>>

NoBuf == [length |-> 0, pos |-> 0, data |-> <<>>]

InitCommon ==
  /\ buf = NoBuf
  /\ heap = [b \in Blocks |-> [st |-> "none", frees |-> 0]]
  /\ cur = NoCall
  /\ writeLog = <<>>
  /\ wrote = [idx |-> {}, cap |-> 0]
  /\ reallocs = <<>>
  /\ grown = <<>>
  /\ err = "none"
  /\ useAfterFree = FALSE
  /\ pack_res = NoValue
  /\ sink_total = 0
  /\ fed = 0
  /\ measure_res = -1
  /\ vec = NoValue
  /\ rbuf = NoBuf
  /\ readLog = <<>>
  /\ unpack_res = NoValue

InitNoGrowth ==
  /\ bufA = NoBuf
  /\ bufB = NoBuf
  /\ srcG = <<>>
  /\ pcG = "off"

InitNoTerm ==
  /\ bufT = NoBuf
  /\ callT = [fn |-> "none", n |-> 0]
  /\ pcT = "off"
  /\ errT = "none"
  /\ nT = 0

\* An R session that packs a value, measures it, and unpacks a raw vector.
Init ==
  /\ pc = "top"
  /\ engine = "replay"
  /\ InitCommon
  /\ InitNoGrowth
  /\ InitNoTerm

\* malloc / free on the model's heap.
Malloc(h, b) == [h EXCEPT ![b].st = "live"]
Free(h, b) == [h EXCEPT ![b] = [st |-> "freed", frees |-> h[b].frees + 1]]

\* Faulty variant of the failure path: the record is not freed.
expand_failure_frees_data_only(h) == Free(h, "wdata")

\* expand_buffer, realloc failed: free(buf->data); free(buf)
expand_failure_frees(h) == Free(Free(h, "wdata"), "wbuf")

\* pack_: free(buf->data); free(buf)
pack_frees(h) == Free(Free(h, "wdata"), "wbuf")

\* unpack_: free(buf)
unpack_frees(h) == Free(h, "rbuf")

\* ------------------------------------------------------------- pack_
\* pack_ up to R_Serialize: init_buffer(16384) and R_InitOutPStream.
PackCall ==
  /\ pc = "top"
  /\ \E okBuf \in BOOLEAN, okData \in BOOLEAN :
       IF ~okBuf
       THEN \* init_buffer: buf == NULL
            /\ err' = "AllocationFailure"
            /\ pc' = "pack_err"
            /\ okData
            /\ UNCHANGED <<buf, heap>>
       ELSE IF ~okData
       THEN \* init_buffer: buf->data == NULL; buf stays allocated
            /\ err' = "AllocationFailure"
            /\ pc' = "pack_err"
            /\ heap' = Malloc(heap, "wbuf")
            /\ buf' = [NoBuf EXCEPT !.length = Uninit, !.pos = Uninit]
       ELSE /\ err' = "none"
            /\ pc' = "pack_engine"
            /\ heap' = Malloc(Malloc(heap, "wbuf"), "wdata")
            /\ buf' = init_buffer(InitCapacity)
  /\ UNCHANGED <<engine, cur, writeLog, wrote, reallocs, grown,
                 useAfterFree, pack_res>>
  /\ UNCHANGED <<measureVars, unpackVars, growthVars, termVars>>

\* R_Serialize calls OutChar -> write_byte(stream, c).
EngineWriteByte ==
  /\ pc = "pack_engine"
  /\ Len(writeLog) < MaxWrites
  /\ \E c \in Bytes :
       cur' = [fn |-> "write_byte", src |-> <<c>>,
               cap |-> buf.length, pos |-> buf.pos]
  /\ pc' = "write_loop"
  /\ UNCHANGED <<engine, buf, heap, writeLog, wrote, reallocs, grown,
                 err, useAfterFree, pack_res>>
  /\ UNCHANGED <<measureVars, unpackVars, growthVars, termVars>>

\* R_Serialize calls OutBytes -> write_bytes(stream, src, length).
EngineWriteBytes ==
  /\ pc = "pack_engine"
  /\ Len(writeLog) < MaxWrites
  /\ \E src \in Runs :
       cur' = [fn |-> "write_bytes", src |-> src,
               cap |-> buf.length, pos |-> buf.pos]
  /\ pc' = "write_loop"
  /\ UNCHANGED <<engine, buf, heap, writeLog, wrote, reallocs, grown,
                 err, useAfterFree, pack_res>>
  /\ UNCHANGED <<measureVars, unpackVars, growthVars, termVars>>

\* One call of expand_buffer(buf), from the loop of write_byte / write_bytes.
ExpandBuffer ==
  LET b1 == expand_length(buf) IN
  IF expansion_too_large(b1)
  THEN \* error("Requested buffer expandsion too large"): nothing is freed
       /\ buf' = b1
       /\ err' = "CapacityExceeded"
       /\ pc' = "pack_err"
       /\ UNCHANGED <<heap, reallocs, grown, useAfterFree>>
  ELSE \E ok \in BOOLEAN :
       /\ reallocs' = Append(reallocs, [size |-> b1.length, ok |-> ok])
       /\ IF ok
          THEN /\ buf' = [b1 EXCEPT !.data = realloc(buf.data, b1.length)]
               /\ grown' = <<buf, buf'>>
               /\ UNCHANGED <<heap, err, pc, useAfterFree>>
          ELSE \* free(buf->data); free(buf); error(..., buf->length)
               /\ buf' = [b1 EXCEPT !.data = <<>>]
               /\ heap' = expand_failure_frees(heap)
               /\ useAfterFree' = TRUE
               /\ err' = "AllocationFailure"
               /\ pc' = "pack_err"
               /\ UNCHANGED grown

\* write_byte: the loop finds the buffer full.
WriteByteExpand ==
  /\ pc = "write_loop"
  /\ cur.fn = "write_byte"
  /\ write_byte_full(buf)
  /\ ExpandBuffer
  /\ UNCHANGED <<engine, cur, writeLog, wrote, pack_res>>
  /\ UNCHANGED <<measureVars, unpackVars, growthVars, termVars>>

\* write_byte: the loop is over; the byte is stored.
WriteByteStore ==
  /\ pc = "write_loop"
  /\ cur.fn = "write_byte"
  /\ ~write_byte_full(buf)
  /\ buf' = write_byte_store(buf, cur.src[1])
  /\ wrote' = [idx |-> {buf.pos}, cap |-> Len(buf.data)]
  /\ writeLog' = Append(writeLog, cur)
  /\ cur' = NoCall
  /\ pc' = "pack_engine"
  /\ UNCHANGED <<engine, heap, reallocs, grown, err, useAfterFree,
                 pack_res>>
  /\ UNCHANGED <<measureVars, unpackVars, growthVars, termVars>>

\* write_bytes: the loop finds too little room.
WriteBytesExpand ==
  /\ pc = "write_loop"
  /\ cur.fn = "write_bytes"
  /\ write_bytes_full(buf, Len(cur.src))
  /\ ExpandBuffer
  /\ UNCHANGED <<engine, cur, writeLog, wrote, pack_res>>
  /\ UNCHANGED <<measureVars, unpackVars, growthVars, termVars>>

\* write_bytes: the loop is over; the run is copied.
WriteBytesStore ==
  /\ pc = "write_loop"
  /\ cur.fn = "write_bytes"
  /\ ~write_bytes_full(buf, Len(cur.src))
  /\ buf' = write_bytes_store(buf, cur.src)
  /\ wrote' = [idx |-> Touched(buf.pos, Len(cur.src)), cap |-> Len(buf.data)]
  /\ writeLog' = Append(writeLog, cur)
  /\ cur' = NoCall
  /\ pc' = "pack_engine"
  /\ UNCHANGED <<engine, heap, reallocs, grown, err, useAfterFree,
                 pack_res>>
  /\ UNCHANGED <<measureVars, unpackVars, growthVars, termVars>>

\* R_Serialize raises an error of its own (a value it cannot encode).
EngineEncodeError ==
  /\ pc = "pack_engine"
  /\ err' = "EngineEncodingError"
  /\ pc' = "pack_err"
  /\ UNCHANGED <<engine, heap, useAfterFree>>
  /\ UNCHANGED <<packVars, measureVars, unpackVars, growthVars, termVars>>

\* R_Serialize returned: pack_ copies the bytes out and frees the buffer.
PackReturn ==
  /\ pc = "pack_engine"
  /\ \E ok \in BOOLEAN :
       IF ok
       THEN /\ pack_res' = pack_result(buf)
            /\ buf' = [buf EXCEPT !.data = <<>>]
            /\ heap' = pack_frees(heap)
            /\ pc' = "pack_ret"
            /\ UNCHANGED err
       ELSE \* allocVector cannot allocate: R's error, before the frees
            /\ err' = "AllocationFailure"
            /\ pc' = "pack_err"
            /\ UNCHANGED <<pack_res, buf, heap>>
  /\ UNCHANGED <<engine, cur, writeLog, wrote, reallocs, grown, useAfterFree>>
  /\ UNCHANGED <<measureVars, unpackVars, growthVars, termVars>>

\* ------------------------------------------------------- size-only call
\* The size-only call binds a counting sink and runs the same encode.
MeasureCall ==
  /\ pc = "pack_ret"
  /\ sink_total' = 0
  /\ fed' = 0
  /\ err' = "none"
  /\ pc' = "measure_engine"
  /\ UNCHANGED <<engine, heap, useAfterFree, measure_res>>
  /\ UNCHANGED <<packVars, unpackVars, growthVars, termVars>>

\* The encode of the same value issues the same write calls, in order.
NextWrite == writeLog[fed + 1]

\* The sink's write-one.
CountByte ==
  /\ pc = "measure_engine"
  /\ fed < Len(writeLog)
  /\ NextWrite.fn = "write_byte"
  /\ sink_total' = count_byte(sink_total)
  /\ fed' = fed + 1
  /\ UNCHANGED <<pc, engine, heap, err, useAfterFree, measure_res>>
  /\ UNCHANGED <<packVars, unpackVars, growthVars, termVars>>

\* The sink's write-many.
CountBytes ==
  /\ pc = "measure_engine"
  /\ fed < Len(writeLog)
  /\ NextWrite.fn = "write_bytes"
  /\ sink_total' = count_bytes(sink_total, Len(NextWrite.src))
  /\ fed' = fed + 1
  /\ UNCHANGED <<pc, engine, heap, err, useAfterFree, measure_res>>
  /\ UNCHANGED <<packVars, unpackVars, growthVars, termVars>>

\* The encode is over: the call returns the sink's total.
MeasureReturn ==
  /\ pc = "measure_engine"
  /\ fed = Len(writeLog)
  /\ measure_res' = sink_total
  /\ pc' = "measure_ret"
  /\ UNCHANGED <<engine, heap, err, useAfterFree, sink_total, fed>>
  /\ UNCHANGED <<packVars, unpackVars, growthVars, termVars>>

\* ------------------------------------------------------------- unpack_
\* pack_'s result with its last byte removed.
Truncated(v) == Raw(SubSeq(v.bytes, 1, Len(v.bytes) - 1))

\* Every byte sequence of length 0..n.
SeqsUpTo(n) == UNION {[1..k -> Bytes] : k \in 0..n}

\* What the session hands to unpack_.
Inputs ==
  IF engine = "replay"
  THEN {pack_res, NotRaw}
         \cup (IF Len(pack_res.bytes) >= 1 THEN {Truncated(pack_res)} ELSE {})
  ELSE {NotRaw} \cup {Raw(bs) : bs \in SeqsUpTo(MaxVecLen)}

\* unpack_ up to R_Unserialize: the type check, the record, R_InitInPStream.
UnpackCall ==
  /\ \/ engine = "replay" /\ pc = "measure_ret"
     \/ engine = "free" /\ pc = "top"
  /\ \E v \in Inputs, okBuf \in BOOLEAN :
       /\ vec' = v
       /\ IF not_raw(v)
          THEN \* error("unpack(): Only raw vectors can be unserialized")
               /\ okBuf
               /\ err' = "InvalidInput"
               /\ pc' = "unpack_err"
               /\ UNCHANGED <<heap, rbuf>>
          ELSE IF ~okBuf
          THEN \* error("'buf' malloc failed!")
               /\ err' = "AllocationFailure"
               /\ pc' = "unpack_err"
               /\ UNCHANGED <<heap, rbuf>>
          ELSE /\ err' = "none"
               /\ pc' = "unpack_engine"
               /\ heap' = Malloc(heap, "rbuf")
               /\ rbuf' = reader_over(v)
  /\ UNCHANGED <<engine, useAfterFree, readLog, unpack_res>>
  /\ UNCHANGED <<packVars, measureVars, growthVars, termVars>>

\* The read call that answers a write call.
ReadOf(fn) == IF fn = "write_byte" THEN "read_byte" ELSE "read_bytes"

\* Whether the decode issues the read call fn of n bytes next.
EngineIssues(fn, n) ==
  IF engine = "replay"
  THEN /\ Len(readLog) < Len(writeLog)
       /\ ReadOf(writeLog[Len(readLog) + 1].fn) = fn
       /\ Len(writeLog[Len(readLog) + 1].src) = n
  ELSE Len(readLog) < MaxReads

ReadEntry(fn, n, ok, out) ==
  [fn |-> fn, n |-> n, pos |-> rbuf.pos, ok |-> ok, out |-> out]

\* R_Unserialize calls InChar -> read_byte(stream).
ReadByte ==
  /\ pc = "unpack_engine"
  /\ EngineIssues("read_byte", 1)
  /\ IF read_byte_overflow(rbuf)
     THEN \* error("read_byte(): overflow")
          /\ readLog' = Append(readLog,
                          ReadEntry("read_byte", 1, FALSE,
                                    read_failed(rbuf, 1).out))
          /\ rbuf' = read_failed(rbuf, 1).buf
          /\ err' = "BufferUnderrun"
          /\ pc' = "unpack_err"
     ELSE /\ readLog' = Append(readLog,
                          ReadEntry("read_byte", 1, TRUE, read_byte_fetch(rbuf)))
          /\ rbuf' = read_advance(rbuf, 1)
          /\ UNCHANGED <<err, pc>>
  /\ UNCHANGED <<engine, heap, useAfterFree, vec, unpack_res>>
  /\ UNCHANGED <<packVars, measureVars, growthVars, termVars>>

\* R_Unserialize calls InBytes -> read_bytes(stream, dst, length).
ReadBytes ==
  /\ pc = "unpack_engine"
  /\ \E n \in 0..MaxLen :
       /\ EngineIssues("read_bytes", n)
       /\ IF read_bytes_overflow(rbuf, n)
          THEN \* error("read_bytes(): overflow")
               /\ readLog' = Append(readLog,
                               ReadEntry("read_bytes", n, FALSE,
                                         read_failed(rbuf, n).out))
               /\ rbuf' = read_failed(rbuf, n).buf
               /\ err' = "BufferUnderrun"
               /\ pc' = "unpack_err"
          ELSE /\ readLog' = Append(readLog,
                               ReadEntry("read_bytes", n, TRUE,
                                         read_bytes_fetch(rbuf, n)))
               /\ rbuf' = read_advance(rbuf, n)
               /\ UNCHANGED <<err, pc>>
  /\ UNCHANGED <<engine, heap, useAfterFree, vec, unpack_res>>
  /\ UNCHANGED <<packVars, measureVars, growthVars, termVars>>

\* R_Unserialize raises an error of its own (bytes it cannot decode).
EngineDecodeError ==
  /\ pc = "unpack_engine"
  /\ err' = "EngineDecodingError"
  /\ pc' = "unpack_err"
  /\ UNCHANGED <<engine, heap, useAfterFree>>
  /\ UNCHANGED <<packVars, measureVars, unpackVars, growthVars, termVars>>

\* The bytes the successful reads returned, in call order.
BytesRead == Flatten([i \in 1..Len(readLog) |-> readLog[i].out])

\* Faulty variant of the return: bytes left unread are an error.
UnpackReturn_strict ==
  /\ pc = "unpack_engine"
  /\ engine = "replay" => Len(readLog) = Len(writeLog)
  /\ IF rbuf.pos < rbuf.length
     THEN /\ err' = "TrailingBytes"
          /\ pc' = "unpack_err"
          /\ UNCHANGED <<unpack_res, heap>>
     ELSE /\ unpack_res' = [type |-> "value", bytes |-> BytesRead]
          /\ heap' = unpack_frees(heap)
          /\ pc' = "unpack_ret"
          /\ UNCHANGED err
  /\ UNCHANGED <<engine, useAfterFree, vec, rbuf, readLog>>
  /\ UNCHANGED <<packVars, measureVars, growthVars, termVars>>

\* R_Unserialize returned: unpack_ frees the record and returns the value,
\* which the engine built from the bytes it read.
UnpackReturn ==
  /\ pc = "unpack_engine"
  /\ engine = "replay" => Len(readLog) = Len(writeLog)
  /\ unpack_res' = [type |-> "value", bytes |-> BytesRead]
  /\ heap' = unpack_frees(heap)
  /\ pc' = "unpack_ret"
  /\ UNCHANGED <<engine, err, useAfterFree, vec, rbuf, readLog>>
  /\ UNCHANGED <<packVars, measureVars, growthVars, termVars>>

\* ------------------------------------------------------ specifications
\* A session: pack a value, measure it, unpack the result (whole, or cut by
\* one byte, or not a raw vector) with the decode that answers the encode.
Next ==
  \/ PackCall
  \/ EngineWriteByte
  \/ EngineWriteBytes
  \/ WriteByteExpand
  \/ WriteByteStore
  \/ WriteBytesExpand
  \/ WriteBytesStore
  \/ EngineEncodeError
  \/ PackReturn
  \/ MeasureCall
  \/ CountByte
  \/ CountBytes
  \/ MeasureReturn
  \/ UnpackCall
  \/ ReadByte
  \/ ReadBytes
  \/ EngineDecodeError
  \/ UnpackReturn

Spec == Init /\ [][Next]_vars

\* unpack_ alone, on any input, under any sequence of read calls.
InitReader ==
  /\ pc = "top"
  /\ engine = "free"
  /\ InitCommon
  /\ InitNoGrowth
  /\ InitNoTerm

NextReader ==
  \/ UnpackCall
  \/ ReadByte
  \/ ReadBytes
  \/ EngineDecodeError
  \/ UnpackReturn

SpecReader == InitReader /\ [][NextReader]_vars

\* The two append paths side by side: the bytes of srcG go into bufA one
\* write_byte call at a time, then into bufB in one write_bytes call.  Both
\* buffers come from init_buffer with the same capacity; the allocator
\* satisfies every request.
InitGrowth ==
  /\ pc = "off"
  /\ engine = "free"
  /\ InitCommon
  /\ srcG \in SeqsUpTo(MaxN)
  /\ bufA = init_buffer(InitCapacity)
  /\ bufB = init_buffer(InitCapacity)
  /\ pcG = [a |-> "run", k |-> 0, b |-> "wait"]
  /\ InitNoTerm

mainVars == <<pc, engine, heap, err, useAfterFree, packVars,
              measureVars, unpackVars>>

\* write_byte on bufA: the loop finds the buffer full; expand_buffer.
GrowthByteExpand ==
  /\ pcG.a = "run"
  /\ pcG.k < Len(srcG)
  /\ write_byte_full(bufA)
  /\ LET b1 == expand_length(bufA) IN
       IF expansion_too_large(b1)
       THEN /\ bufA' = b1
            /\ pcG' = [pcG EXCEPT !.a = "failed", !.b = "run"]
       ELSE /\ bufA' = [b1 EXCEPT !.data = realloc(bufA.data, b1.length)]
            /\ UNCHANGED pcG
  /\ UNCHANGED <<mainVars, termVars, bufB, srcG>>

\* write_byte on bufA: the byte is stored; after the last one, bufB's turn.
GrowthByteStore ==
  /\ pcG.a = "run"
  /\ pcG.k < Len(srcG)
  /\ ~write_byte_full(bufA)
  /\ bufA' = write_byte_store(bufA, srcG[pcG.k + 1])
  /\ pcG' = [pcG EXCEPT !.k = pcG.k + 1]
  /\ UNCHANGED <<mainVars, termVars, bufB, srcG>>

\* The last write_byte call returned.
GrowthBytesCall ==
  /\ pcG.a = "run"
  /\ pcG.k = Len(srcG)
  /\ pcG' = [pcG EXCEPT !.a = "done", !.b = "run"]
  /\ UNCHANGED <<mainVars, termVars, bufA, bufB, srcG>>

\* write_bytes on bufB: the loop finds too little room; expand_buffer.
GrowthBytesExpand ==
  /\ pcG.b = "run"
  /\ write_bytes_full(bufB, Len(srcG))
  /\ LET b1 == expand_length(bufB) IN
       IF expansion_too_large(b1)
       THEN /\ bufB' = b1
            /\ pcG' = [pcG EXCEPT !.b = "failed"]
       ELSE /\ bufB' = [b1 EXCEPT !.data = realloc(bufB.data, b1.length)]
            /\ UNCHANGED pcG
  /\ UNCHANGED <<mainVars, termVars, bufA, srcG>>

\* write_bytes on bufB: the run is copied.
GrowthBytesStore ==
  /\ pcG.b = "run"
  /\ ~write_bytes_full(bufB, Len(srcG))
  /\ bufB' = write_bytes_store(bufB, srcG)
  /\ pcG' = [pcG EXCEPT !.b = "done"]
  /\ UNCHANGED <<mainVars, termVars, bufA, srcG>>

NextGrowth ==
  \/ GrowthByteExpand
  \/ GrowthByteStore
  \/ GrowthBytesCall
  \/ GrowthBytesExpand
  \/ GrowthBytesStore

SpecGrowth == InitGrowth /\ [][NextGrowth]_vars

\* Write calls on a buffer that init_buffer(nbytes) returned, for any nbytes
\* it returns a buffer for, 0 included (nothing in init_buffer tests nbytes).
\* Each call is followed through its loop: the test of the while condition,
\* the call of expand_buffer, the store.
InitTerm ==
  /\ pc = "off"
  /\ engine = "free"
  /\ InitCommon
  /\ InitNoGrowth
  /\ \E nbytes \in 0..MaxInit : bufT = init_buffer(nbytes)
  /\ callT = [fn |-> "none", n |-> 0]
  /\ pcT = "idle"
  /\ errT = "none"
  /\ nT = 0

otherVars == <<mainVars, growthVars>>

\* The engine calls write_byte, or write_bytes with some length.
TermCall ==
  /\ pcT = "idle"
  /\ nT < MaxWrites
  /\ \/ callT' = [fn |-> "write_byte", n |-> 1]
     \/ \E n \in 0..MaxN : callT' = [fn |-> "write_bytes", n |-> n]
  /\ pcT' = "test"
  /\ nT' = nT + 1
  /\ UNCHANGED <<otherVars, bufT, errT>>

\* The while condition of write_byte / write_bytes is evaluated.
TermTest ==
  /\ pcT = "test"
  /\ LET full == IF callT.fn = "write_byte"
                 THEN write_byte_full(bufT)
                 ELSE write_bytes_full(bufT, callT.n)
     IN  pcT' = IF full THEN "expand" ELSE "store"
  /\ UNCHANGED <<otherVars, bufT, callT, errT, nT>>

\* The loop body: expand_buffer(buf).  realloc(ptr, 0) may return a block of
\* no bytes, or NULL; when it returns NULL having freed ptr, the free of
\* line 61 frees it again, which may also abort the process.
TermExpand ==
  /\ pcT = "expand"
  /\ LET b1 == expand_length(bufT) IN
       IF expansion_too_large(b1)
       THEN /\ bufT' = b1
            /\ errT' = "CapacityExceeded"
            /\ pcT' = "failed"
       ELSE \E ok \in BOOLEAN :
              IF ok
              THEN /\ bufT' = [b1 EXCEPT !.data = realloc(bufT.data, b1.length)]
                   /\ pcT' = "test"
                   /\ UNCHANGED errT
              ELSE /\ bufT' = [b1 EXCEPT !.data = <<>>]
                   /\ \/ errT' = "AllocationFailure" /\ pcT' = "failed"
                      \/ b1.length = 0 /\ errT' = "none" /\ pcT' = "aborted"
  /\ UNCHANGED <<otherVars, callT, nT>>

\* The loop is over: the byte or the run is stored and the call returns.
TermStore ==
  /\ pcT = "store"
  /\ bufT' = IF callT.fn = "write_byte"
             THEN write_byte_store(bufT, 7)
             ELSE write_bytes_store(bufT, Run(7, callT.n))
  /\ pcT' = "idle"
  /\ UNCHANGED <<otherVars, callT, errT, nT>>

NextTerm ==
  \/ TermCall
  \/ TermTest
  \/ TermExpand
  \/ TermStore

\* The calls run on one thread that always takes its next step.
SpecTerm == InitTerm /\ [][NextTerm]_vars /\ WF_vars(NextTerm)

\* ------------------------------------------------------------ properties
\* The bytes the completed write calls were given, in call order.
BytesWritten == Flatten([i \in 1..Len(writeLog) |-> writeLog[i].src])

\* The committed content [0, pos) of a buffer.
Committed(b) == [i \in 1..b.pos |-> At(b.data, i)]

HasCall(fn) == \E i \in 1..Len(writeLog) : writeLog[i].fn = fn

\* The realloc calls that succeeded: the growth steps.
GrowthSteps == Cardinality({i \in 1..Len(reallocs) : reallocs[i].ok})

\* C1: what pack_ returns is the concatenation, in call order, of the bytes
\* given to write_byte and write_bytes during the call: as many bytes as
\* were written, none added, dropped, reordered or taken from the slack.
C1_PackReturnsWrittenBytes ==
  pc = "pack_ret" =>
    /\ pack_res = Raw(BytesWritten)
    /\ Len(pack_res.bytes) = SumLen([i \in 1..Len(writeLog) |-> writeLog[i].src])
    /\ \A i \in 1..Len(pack_res.bytes) : pack_res.bytes[i] # Uninit

\* C1 happens: a pack that mixed both calls, grew twice, wrote a run of no
\* bytes and returned with slack left in the buffer.
C1_Witness ==
  /\ pc = "pack_ret"
  /\ \E i \in 1..Len(writeLog) :
       writeLog[i].fn = "write_bytes" /\ Len(writeLog[i].src) = 0
  /\ HasCall("write_byte")
  /\ \E i \in 1..Len(writeLog) :
       writeLog[i].fn = "write_bytes" /\ Len(writeLog[i].src) >= 2
  /\ GrowthSteps >= 2
  /\ buf.pos < buf.length

InUnpack == pc \in {"unpack_engine", "unpack_ret", "unpack_err"}

\* unpack_ was handed exactly what pack_ returned.
GivenPacked == InUnpack /\ pack_res.type = "RAWSXP" /\ vec = pack_res

\* C2: a reader over pack_'s result, driven by the read calls that answer
\* the write calls (same order, same lengths), succeeds on every call and
\* returns the bytes written; when all are answered the position equals
\* the length.
C2_RoundTrip ==
  GivenPacked =>
    /\ Len(readLog) <= Len(writeLog)
    /\ \A i \in 1..Len(readLog) :
         /\ readLog[i].ok
         /\ readLog[i].fn = ReadOf(writeLog[i].fn)
         /\ readLog[i].out = writeLog[i].src
    /\ err # "BufferUnderrun"
    /\ Len(readLog) = Len(writeLog) => rbuf.pos = rbuf.length
    /\ pc = "unpack_ret" =>
         /\ Len(readLog) = Len(writeLog)
         /\ unpack_res.bytes = BytesWritten

\* C2 happens: a result that crossed two growth steps is read back whole,
\* by both kinds of read call.
C2_Witness ==
  /\ GivenPacked
  /\ pc = "unpack_ret"
  /\ GrowthSteps >= 2
  /\ \E i, j \in 1..Len(readLog) :
       /\ readLog[i].fn = "read_byte"
       /\ readLog[j].fn = "read_bytes" /\ readLog[j].n >= 2

\* C3: the count the size-only call returns is the length of what pack_
\* returned for the same write calls.
C3_SizeAgreement ==
  pc \in {"measure_ret"} \cup {"unpack_engine", "unpack_ret", "unpack_err"} =>
    measure_res = Len(pack_res.bytes)

\* C3 happens: the measured encode had single bytes and a run, and pack_
\* grew its buffer for them.
C3_Witness ==
  /\ pc = "measure_ret"
  /\ HasCall("write_byte")
  /\ \E i \in 1..Len(writeLog) :
       writeLog[i].fn = "write_bytes" /\ Len(writeLog[i].src) >= 2
  /\ GrowthSteps >= 2
  /\ measure_res >= 4

\* C4: N bytes appended by N write_byte calls and the same N bytes appended
\* by one write_bytes call, to buffers of the same initial capacity, give
\* the same position and the same committed bytes.
C4_GrowthCorrectness ==
  (pcG.a = "done" /\ pcG.b = "done") =>
    /\ bufA.pos = bufB.pos
    /\ Committed(bufA) = Committed(bufB)

\* C4 happens: N forces at least three growth steps on both paths.
C4_Witness ==
  /\ pcG.a = "done"
  /\ pcG.b = "done"
  /\ Len(srcG) > 4 * InitCapacity
  /\ bufA.length >= 8 * InitCapacity
  /\ bufB.length >= 8 * InitCapacity

\* unpack_ was handed pack_'s result without its last byte.
GivenTruncated ==
  /\ InUnpack
  /\ pack_res.type = "RAWSXP"
  /\ Len(pack_res.bytes) >= 1
  /\ vec = Truncated(pack_res)

\* The bytes the first i read calls asked for.
RECURSIVE Asked(_)
Asked(i) == IF i = 0 THEN 0 ELSE readLog[i].n + Asked(i - 1)

\* C5: on pack_'s result cut by one byte, the reads that answer the writes
\* succeed until one needs the missing byte; that one fails with
\* BufferUnderrun, and unpack_ returns no value.
C5_TruncatedInput ==
  GivenTruncated =>
    /\ pc # "unpack_ret"
    /\ unpack_res = NoValue
    /\ \A i \in 1..Len(readLog) :
         /\ readLog[i].ok <=> Asked(i) < Len(pack_res.bytes)
         /\ ~readLog[i].ok =>
              /\ i = Len(readLog)
              /\ err = "BufferUnderrun"
              /\ pc = "unpack_err"
    /\ Len(readLog) = Len(writeLog) => ~readLog[Len(readLog)].ok

\* C5 happens: reads succeed, then a read_bytes call finds some but not all
\* of its bytes and fails.
C5_Witness ==
  /\ GivenTruncated
  /\ pc = "unpack_err"
  /\ err = "BufferUnderrun"
  /\ Len(readLog) >= 2
  /\ readLog[Len(readLog)].fn = "read_bytes"
  /\ readLog[Len(readLog)].pos < rbuf.length

\* C6: on a reader of length L a read call of n bytes (1 for read_byte)
\* succeeds iff position + n <= L; a successful call returns the bytes at
\* [position, position + n), all below L; a failed call is the last one and
\* fails with BufferUnderrun.
C6_UnderrunSafety ==
  (InUnpack /\ vec.type = "RAWSXP") =>
    \A i \in 1..Len(readLog) :
      LET e == readLog[i] IN
      /\ e.ok <=> e.pos + e.n <= Len(vec.bytes)
      /\ e.ok => /\ e.out = SubSeq(vec.bytes, e.pos + 1, e.pos + e.n)
                 /\ \A k \in 1..Len(e.out) : e.out[k] # Uninit
      /\ ~e.ok => /\ i = Len(readLog)
                  /\ e.out = <<>>
                  /\ err = "BufferUnderrun"
                  /\ pc = "unpack_err"
      /\ e.pos = Asked(i - 1)

\* C6 happens: reads that ask for L + 1 bytes in all; the one that crosses
\* L fails with bytes still unread.
C6_Witness ==
  /\ InUnpack
  /\ vec.type = "RAWSXP"
  /\ Len(vec.bytes) >= 2
  /\ Len(readLog) >= 2
  /\ Asked(Len(readLog)) = Len(vec.bytes) + 1
  /\ ~readLog[Len(readLog)].ok
  /\ readLog[Len(readLog)].pos < Len(vec.bytes)
  /\ \E i \in 1..Len(readLog) : readLog[i].fn = "read_byte"

\* Control is back at the caller of pack_ or unpack_.
AtCaller ==
  pc \in {"pack_ret", "pack_err", "measure_engine", "measure_ret",
          "unpack_ret", "unpack_err"}

\* C7: whenever pack_ or unpack_ has returned or failed, every block the
\* call acquired has been released exactly once.
C7_EveryBlockReleasedOnce ==
  AtCaller =>
    \A b \in Blocks :
      /\ heap[b].st # "live"
      /\ heap[b].st = "freed" => heap[b].frees = 1
      /\ heap[b].frees <= 1

\* The write call in progress finds too little room.
NeedsGrowth ==
  \/ cur.fn = "write_byte" /\ write_byte_full(buf)
  \/ cur.fn = "write_bytes" /\ write_bytes_full(buf, Len(cur.src))

\* C8: when an append needs growth and twice the capacity is more than
\* R_XLEN_T_MAX, the step raises CapacityExceeded: realloc is not called,
\* the length field holds exactly twice the capacity (no wrap-around),
\* nothing is written, and pack_ is over without a result, for good.
C8_CapacityExceeded ==
  [][/\ (pc = "write_loop" /\ NeedsGrowth /\ 2 * buf.length > R_XLEN_T_MAX) =>
          /\ pc' = "pack_err"
          /\ err' = "CapacityExceeded"
          /\ reallocs' = reallocs
          /\ buf'.length = 2 * buf.length
          /\ buf'.pos = buf.pos
          /\ buf'.data = buf.data
          /\ writeLog' = writeLog
          /\ pack_res' = NoValue
     /\ pc = "pack_err" => (pc' = "pack_err" /\ pack_res' = NoValue)]_vars

\* C8 happens: a write call met a full buffer whose capacity could not be
\* doubled, after growing it three times.
C8_Witness ==
  /\ pc = "pack_err"
  /\ err = "CapacityExceeded"
  /\ buf.length = 2 * Len(buf.data)
  /\ buf.length > R_XLEN_T_MAX
  /\ GrowthSteps >= 3
  /\ cur.fn = "write_bytes"

FailedReallocs == {i \in 1..Len(reallocs) : ~reallocs[i].ok}

\* C9: once realloc has failed, the append has failed with
\* AllocationFailure, the record and the byte storage have each been freed
\* once, no further realloc was tried, and pack_ returns nothing.
C9_AllocationFailureOnGrowth ==
  FailedReallocs # {} =>
    /\ FailedReallocs = {Len(reallocs)}
    /\ pc = "pack_err"
    /\ err = "AllocationFailure"
    /\ heap["wbuf"] = [st |-> "freed", frees |-> 1]
    /\ heap["wdata"] = [st |-> "freed", frees |-> 1]
    /\ cur # NoCall
    /\ pack_res = NoValue

\* C9 happens: realloc fails on the third growth step, with bytes already
\* committed.
C9_Witness ==
  /\ FailedReallocs # {}
  /\ Len(reallocs) = 3
  /\ buf.pos >= 3
  /\ pc = "pack_err"

\* C10: while pack_'s buffer is allocated, 0 <= position <= capacity (the
\* length field and the size of the storage agree while the call runs),
\* and every store lands below the capacity.
C10_BufferInvariant ==
  /\ heap["wdata"].st = "live" =>
       /\ 0 <= buf.pos
       /\ buf.pos <= buf.length
       /\ buf.pos <= Len(buf.data)
       /\ pc \in {"pack_engine", "write_loop"} => buf.length = Len(buf.data)
  /\ \A i \in wrote.idx : 0 <= i /\ i < wrote.cap

\* C10 happens: after two growth steps a run fills the buffer to its last
\* byte.
C10_Witness ==
  /\ pc = "pack_engine"
  /\ GrowthSteps >= 2
  /\ buf.pos = buf.length
  /\ Cardinality(wrote.idx) >= 2
  /\ buf.length - 1 \in wrote.idx

\* Whether unpack_ built its reader record (the malloc at line 196 succeeded).
ReaderBuilt == InUnpack /\ heap["rbuf"].st # "none"

\* Whether some read of the current unpack_ call succeeded / failed.
SomeRead(ok) == \E i \in 1..Len(readLog) : readLog[i].ok = ok

\* C11: BoundedReader invariant.  Every step that leaves unpack_ with a reader
\* record, whatever reads succeeded or failed before, leaves
\* 0 <= position <= length, the length equal to the size of the caller's byte
\* sequence, the view equal to the caller's bytes, and the caller's value as
\* it was passed.
C11_BoundedReader ==
  [][ReaderBuilt' =>
       /\ 0 <= rbuf'.pos
       /\ rbuf'.pos <= rbuf'.length
       /\ rbuf'.length = Len(vec'.bytes)
       /\ rbuf'.data = vec'.bytes
       /\ InUnpack => vec' = vec]_vars

\* C11 happens: a call in which reads succeeded up to the very end of the
\* caller's bytes and a further read then failed.
C11_Witness ==
  /\ ReaderBuilt
  /\ SomeRead(TRUE)
  /\ SomeRead(FALSE)
  /\ rbuf.pos = rbuf.length
  /\ rbuf.length >= 2

\* C12: Monotonic position.  Between the write calls of one pack_ the position
\* equals the sum of the lengths appended so far (1 per write_byte, n per
\* write_bytes of n), and no step of a write call, a growth step included,
\* decreases the position.
C12_MonotonicPosition ==
  [][/\ pc \in {"pack_engine", "write_loop"} => buf'.pos >= buf.pos
     /\ pc' = "pack_engine" =>
          buf'.pos = SumLen([i \in 1..Len(writeLog') |-> writeLog'[i].src])]_vars

\* C12 happens: write_byte and write_bytes calls both made, with two growth
\* steps on the way, the position now past the first capacity four times.
C12_Witness ==
  /\ pc = "pack_engine"
  /\ HasCall("write_byte")
  /\ HasCall("write_bytes")
  /\ GrowthSteps >= 2
  /\ buf.pos >= 4 * InitCapacity

\* C13: InvalidInput ordering.  unpack_ on a value that is not a raw vector
\* fails with InvalidInput with no reader record allocated or filled in, no
\* read call made and no value returned.
C13_InvalidInputFirst ==
  (InUnpack /\ vec.type # "RAWSXP") =>
     /\ pc = "unpack_err"
     /\ err = "InvalidInput"
     /\ heap["rbuf"] = [st |-> "none", frees |-> 0]
     /\ rbuf = NoBuf
     /\ readLog = <<>>
     /\ unpack_res = NoValue

\* C13 happens: unpack_ was called on an INTSXP value and has failed.
C13_Witness ==
  /\ pc = "unpack_err"
  /\ vec = NotRaw
  /\ err = "InvalidInput"

\* C14: Trailing bytes.  When the decode stops issuing reads with bytes left
\* (position < length) and raises no error of its own, unpack_ frees its
\* record and returns the decoded value; it raises no error for the bytes
\* that were not consumed.
C14_TrailingBytes ==
  [][(/\ pc = "unpack_engine"
      /\ rbuf.pos < rbuf.length
      /\ readLog' = readLog
      /\ err' # "EngineDecodingError")
     => /\ pc' = "unpack_ret"
        /\ err' = "none"
        /\ unpack_res' = [type |-> "value", bytes |-> BytesRead]
        /\ heap'["rbuf"].st = "freed"
        /\ rbuf' = rbuf]_vars

\* C14 happens: unpack_ has returned a value after at least one read, with
\* at least one byte of the input never read.
C14_Witness ==
  /\ pc = "unpack_ret"
  /\ unpack_res.type = "value"
  /\ Len(readLog) >= 1
  /\ rbuf.pos < rbuf.length

\* The write call that completed last, with the capacity and position it
\* found on entry.
LastWrite == writeLog[Len(writeLog)]

\* Whether the write call that completed last found too little room.
LastWriteGrew ==
  /\ pc = "pack_engine"
  /\ writeLog # <<>>
  /\ LastWrite.pos + Len(LastWrite.src) > LastWrite.cap

Max(a, b) == IF a >= b THEN a ELSE b

\* The first of 2c, 4c, 8c, ... that is at least `need` (c >= 1).
RECURSIVE LeastDoubling(_, _)
LeastDoubling(c, need) ==
  IF c <= 0 \/ need <= 2 * c THEN 2 * c ELSE LeastDoubling(2 * c, need)

\* C15 as stated: when an append of n bytes finds position + n > capacity,
\* the capacity after the append equals max(2 * old capacity, position + n).
C15_GrowthPolicy_AsStated ==
  LastWriteGrew =>
    buf.length = Max(2 * LastWrite.cap, LastWrite.pos + Len(LastWrite.src))

\* C15, amended: when an append of n bytes finds position + n > capacity, the
\* capacity after the append is the old capacity doubled as many times as it
\* takes, and no more, to hold position + n: the least of 2c, 4c, 8c, ...
\* that is at least position + n.  It is never less than
\* max(2 * old capacity, position + n).
C15_GrowthPolicy ==
  LastWriteGrew =>
    /\ buf.length = LeastDoubling(LastWrite.cap,
                                  LastWrite.pos + Len(LastWrite.src))
    /\ buf.length >= Max(2 * LastWrite.cap,
                         LastWrite.pos + Len(LastWrite.src))

\* C15 happens: an append that one doubling does not satisfy has completed.
C15_Witness ==
  /\ LastWriteGrew
  /\ LastWrite.pos + Len(LastWrite.src) > 2 * LastWrite.cap
  /\ buf.pos = LastWrite.pos + Len(LastWrite.src)

\* A read call is a step that adds one entry to readLog.
ReadStep == Len(readLog') = Len(readLog) + 1

\* The read call made last.
LastRead == readLog[Len(readLog)]

\* C16: a failed read leaves the reader untouched.  On BufferUnderrun the
\* position and the rest of the reader record are unchanged and no byte has
\* been copied to the destination, also when some of the n bytes asked for
\* were available.
C16_FailedReadUntouched ==
  [][(pc = "unpack_engine" /\ ReadStep /\ err' = "BufferUnderrun") =>
       /\ rbuf' = rbuf
       /\ vec' = vec
       /\ LastRead'.ok = FALSE
       /\ LastRead'.out = <<>>
       /\ LastRead'.pos = rbuf.pos]_vars

\* C16 happens: a read_bytes call failed with some, but not all, of the
\* bytes it asked for available.
C16_Witness ==
  /\ err = "BufferUnderrun"
  /\ readLog # <<>>
  /\ LastRead.fn = "read_bytes"
  /\ LastRead.pos >= 1
  /\ LastRead.pos < rbuf.length
  /\ LastRead.pos + LastRead.n > rbuf.length

\* C17: a successful growth step changes only the capacity: the position is
\* unchanged, the committed bytes [0, position) are unchanged, the capacity is
\* strictly greater and the storage has the new capacity.
C17_GrowthChangesOnlyCapacity ==
  grown # <<>> =>
    /\ grown[2].pos = grown[1].pos
    /\ Committed(grown[2]) = Committed(grown[1])
    /\ grown[2].length > grown[1].length
    /\ Len(grown[2].data) = grown[2].length

\* C17 happens: a growth step has succeeded on a buffer holding at least two
\* committed bytes.
C17_Witness ==
  /\ grown # <<>>
  /\ grown[1].pos >= 2
  /\ \A i \in 1..grown[1].pos : grown[1].data[i] \in Bytes

\* C18: zero-length operations are no-ops that always succeed.
\* write_bytes with length 0 leaves the buffer (position, capacity, content)
\* as it was and calls no growth step, also when position = capacity;
\* read_bytes with length 0 succeeds and leaves the reader as it was, also
\* when position = length.
C18_ZeroLengthNoOp ==
  [][/\ (pc = "write_loop" /\ cur.fn = "write_bytes" /\ cur.src = <<>>) =>
          /\ buf' = buf
          /\ reallocs' = reallocs
          /\ heap' = heap
          /\ err' = err
          /\ pc' = "pack_engine"
     /\ (/\ pc = "unpack_engine"
         /\ ReadStep
         /\ LastRead'.fn = "read_bytes"
         /\ LastRead'.n = 0) =>
          /\ LastRead'.ok
          /\ rbuf' = rbuf
          /\ err' = err
          /\ pc' = pc]_vars

\* C18 happens: a zero-length write_bytes completed on a full buffer
\* (position = capacity) and a zero-length read_bytes completed at the end of
\* the input (position = length).
C18_Witness ==
  /\ \E i \in 1..Len(writeLog) :
       /\ writeLog[i].fn = "write_bytes"
       /\ writeLog[i].src = <<>>
       /\ writeLog[i].pos = writeLog[i].cap
       /\ writeLog[i].pos >= 1
  /\ \E j \in 1..Len(readLog) :
       /\ readLog[j].fn = "read_bytes"
       /\ readLog[j].n = 0
       /\ readLog[j].ok
       /\ readLog[j].pos = rbuf.length
       /\ rbuf.length >= 1

C20_NoUseAfterRelease == useAfterFree = FALSE
====
